---- MODULE Spec2Model ----
(***************************************************************************)
(* lectures/4_segmentation.ipynb as a state machine.                       *)
(*                                                                         *)
(* The state is the notebook's global namespace; one action per code cell, *)
(* cells run top to bottom ("Run All").  A statement is named by the line  *)
(* of the .ipynb file it starts on.  Arrays are functions from 0-based     *)
(* coordinate tuples (<<i>> or <<r, c>>) to values; the shape of an array  *)
(* is its DOMAIN.  Real numbers are scaled to integers: edge strengths,    *)
(* the threshold and eccentricities are in tenths, Euclidean distances are *)
(* kept as their squares.                                                  *)
(***************************************************************************)
EXTENDS Integers, Sequences, FiniteSets, TLC

\* ------------------------------------------------------------------ bounds
\* Width of the one-row colour image read by io.imread.
ImgW == 2
\* Colour channels per pixel of that image.
Channels == 2
\* Largest channel value (the file is uint8; the model keeps values small).
MaxVal == 1
\* Largest label seg.slic hands out.
MaxLabel == 1
\* Width of the two-row coins image.
CoinsW == 3
\* Largest number of coordinates feature.peak_local_max returns.
MaxPeaks == 2

\* ------------------------------------------------- constants of the notebook
\* threshold = 0.4, in tenths.
Threshold == 4
\* region.eccentricity > 0.6, in tenths.
EccThreshold == 6

\* ------------------------------------------------------------- coordinates
Abs(n) == IF n < 0 THEN -n ELSE n

Line(n) == {<<i>> : i \in 0..(n - 1)}

Grid(h, w) == {<<r, c>> : r \in 0..(h - 1), c \in 0..(w - 1)}

\* Raster (C) order of coordinates: the order numpy scans an array in.
RasterLess(p, q) ==
    IF Len(p) = 1 THEN p[1] < q[1]
    ELSE p[1] < q[1] \/ (p[1] = q[1] /\ p[2] < q[2])

First(S) == CHOOSE p \in S : \A q \in S : p = q \/ RasterLess(p, q)

RECURSIVE RasterSeq(_)
RasterSeq(S) ==
    IF S = {} THEN <<>> ELSE <<First(S)>> \o RasterSeq(S \ {First(S)})

\* City-block distance; 1 between the neighbours of the default (cross)
\* structuring element of ndi.label and watershed.
Dist1(p, q) ==
    IF Len(p) = 1 THEN Abs(p[1] - q[1])
    ELSE Abs(p[1] - q[1]) + Abs(p[2] - q[2])

Adjacent(p, q) == Len(p) = Len(q) /\ Dist1(p, q) = 1

SqDist(p, q) ==
    IF Len(p) = 1 THEN (p[1] - q[1]) * (p[1] - q[1])
    ELSE (p[1] - q[1]) * (p[1] - q[1]) + (p[2] - q[2]) * (p[2] - q[2])

SetMin(S) == CHOOSE m \in S : \A n \in S : m <= n

RECURSIVE SortedSeq(_)
SortedSeq(S) ==
    IF S = {} THEN <<>> ELSE <<SetMin(S)>> \o SortedSeq(S \ {SetMin(S)})

Range(f) == {f[x] : x \in DOMAIN f}

\* ------------------------------------------------------ library operations
\* scipy.ndimage.label(mask) with its default structuring element: the
\* connected components of the True pixels, numbered 1.. in raster order of
\* their first pixel; returns (labelled array, number of components).
RECURSIVE Grow(_, _)
Grow(mask, S) ==
    LET T == S \cup {q \in DOMAIN mask : mask[q] /\ \E p \in S : Adjacent(p, q)}
    IN  IF T = S THEN S ELSE Grow(mask, T)

Component(mask, p) == Grow(mask, {p})

NdiLabel(mask) ==
    LET true   == {p \in DOMAIN mask : mask[p]}
        firsts == {First(Component(mask, p)) : p \in true}
        rank(f) == Cardinality({g \in firsts : g = f \/ RasterLess(g, f)})
    IN  << [p \in DOMAIN mask |->
              IF mask[p] THEN rank(First(Component(mask, p))) ELSE 0],
           Cardinality(firsts) >>

\* scipy.ndimage.distance_transform_edt(mask): 0 at the False pixels, at a
\* True pixel the Euclidean distance to the nearest False pixel (kept
\* squared).  With no False pixel at all the transform measures from the
\* point just before the array's origin.
DistanceTransformEdt(mask) ==
    LET bg == {q \in DOMAIN mask : ~mask[q]}
        origin(p) == [i \in 1..Len(p) |-> -1]
    IN  [p \in DOMAIN mask |->
            IF ~mask[p] THEN 0
            ELSE IF bg = {} THEN SqDist(p, origin(p))
            ELSE SetMin({SqDist(p, q) : q \in bg})]

\* skimage.morphology.watershed(image, markers): priority flood.  The queue
\* holds (value, age, index); the marker pixels enter in raster order; the
\* smallest (value, age) is popped and each still unlabelled neighbour, in
\* raster order, takes the popped pixel's label and enters the queue.
QLess(a, b) == a.value < b.value \/ (a.value = b.value /\ a.age < b.age)

QMin(pq) == CHOOSE e \in pq : \A f \in pq : e = f \/ QLess(e, f)

RECURSIVE Visit(_, _, _)
Visit(image, st, nbrs) ==
    IF nbrs = <<>> THEN st
    ELSE LET q == Head(nbrs)
         IN  IF st.out[q] # 0 THEN Visit(image, st, Tail(nbrs))
             ELSE Visit(image,
                        [out |-> [st.out EXCEPT ![q] = st.label],
                         pq  |-> st.pq \cup {[value |-> image[q],
                                              age |-> st.age + 1,
                                              index |-> q]},
                         age |-> st.age + 1,
                         label |-> st.label],
                        Tail(nbrs))

RECURSIVE Flood(_, _)
Flood(image, st) ==
    IF st.pq = {} THEN st.out
    ELSE LET e    == QMin(st.pq)
             nbrs == RasterSeq({q \in DOMAIN image : Adjacent(e.index, q)})
             next == Visit(image,
                           [out |-> st.out, pq |-> st.pq \ {e},
                            age |-> st.age, label |-> st.out[e.index]],
                           nbrs)
         IN  Flood(image, next)

Watershed(image, markers) ==
    LET seeded == RasterSeq({p \in DOMAIN markers : markers[p] # 0})
        pq0 == {[value |-> image[seeded[i]], age |-> i - 1, index |-> seeded[i]]
                  : i \in 1..Len(seeded)}
    IN  Flood(image, [out |-> markers, pq |-> pq0,
                      age |-> Len(seeded) - 1, label |-> 0])

\* ------------------------------------------------------- notebook functions
RECURSIVE SumChannel(_, _, _)
SumChannel(image, S, ch) ==
    IF S = {} THEN 0
    ELSE LET p == First(S)
         IN  image[p][ch] + SumChannel(image, S \ {p}, ch)

\* np.mean(image[indices], axis=0) stored into out, whose dtype is the
\* image's (np.zeros_like): the float mean is cut to an integer.
StoreMean(image, indices, ch) ==
    SumChannel(image, indices, ch) \div Cardinality(indices)

ZerosLike(image) == [p \in DOMAIN image |-> [ch \in DOMAIN image[p] |-> 0]]

RECURSIVE MeanColorLoop(_, _, _, _)
MeanColorLoop(image, labels, out, todo) ==
    IF todo = <<>> THEN out
    ELSE LET label   == Head(todo)
             indices == {p \in DOMAIN labels : labels[p] = label}
             mean    == [ch \in 1..Channels |-> StoreMean(image, indices, ch)]
         IN  MeanColorLoop(image, labels,
                           [p \in DOMAIN out |->
                               IF p \in indices THEN mean ELSE out[p]],
                           Tail(todo))

mean_color(image, labels) ==
    MeanColorLoop(image, labels, ZerosLike(image), SortedSeq(Range(labels)))

\* Fault: the shape handed to np.zeros reversed.
PeaksZerosTransposed(coins) ==
    [p \in {<<q[2], q[1]>> : q \in DOMAIN coins} |-> FALSE]

PeaksZeros(coins) == [p \in DOMAIN coins |-> FALSE]

\* Fault: the coordinates used without the transpose, rows for columns.
MarkPeaksSwapped(peaks_image, peaks) ==
    [p \in DOMAIN peaks_image |->
        IF <<p[2], p[1]>> \in peaks THEN TRUE ELSE peaks_image[p]]

MarkPeaks(peaks_image, peaks) ==
    [p \in DOMAIN peaks_image |-> IF p \in peaks THEN TRUE ELSE peaks_image[p]]

\* Fault: <= for <.
NonEdgesInclusive(edges, threshold) ==
    [p \in DOMAIN edges |-> edges[p] <= threshold]

NonEdges(edges, threshold) == [p \in DOMAIN edges |-> edges[p] < threshold]

\* Fault: < for ==, a mask that is True nowhere.
SeedMaskBelowZero(y) == [p \in DOMAIN y |-> y[p] < 0]

SeedMask(y) == [p \in DOMAIN y |-> y[p] = 0]

\* regionprops(ws): one region per label > 0 of ws, by ascending label; the
\* eccentricity of each is the library's measurement ecc[label].
RegionProps(ws, ecc) ==
    LET ls == SortedSeq(Range(ws) \ {0})
    IN  [i \in 1..Len(ls) |-> [label |-> ls[i], eccentricity |-> ecc[ls[i]]]]

\* Fault: >= for >.
IsNotRoundInclusive(region) == region.eccentricity >= EccThreshold

IsNotRound(region) == region.eccentricity > EccThreshold

RECURSIVE FilterLoop(_, _)
FilterLoop(ws_updated, regions) ==
    IF regions = <<>> THEN ws_updated
    ELSE LET region == Head(regions)
         IN  FilterLoop(IF IsNotRound(region)
                        THEN [p \in DOMAIN ws_updated |->
                                IF ws_updated[p] = region.label
                                THEN 0 ELSE ws_updated[p]]
                        ELSE ws_updated,
                        Tail(regions))

Y1D == [p \in Line(12) |-> <<1, 0, 1, 2, 1, 3, 2, 0, 2, 4, 1, 0>>[p[1] + 1]]

\* ------------------------------------------------------------ the notebook
\* Fault: the distance-transform cell placed before the cell that computes
\* edges.
NotebookEdtFirst ==
    << "future", "numpy", "load", "slic", "mean", "rerun1", "rerun2",
       "rerun3", "rerun4", "url2", "imports", "edt", "coins", "flood1d",
       "peaks", "ws", "filter", "style" >>

\* The code cells, top to bottom.
Notebook ==
    << "future", "numpy", "load", "slic", "mean", "rerun1", "rerun2",
       "rerun3", "rerun4", "url2", "imports", "coins", "flood1d", "edt",
       "peaks", "ws", "filter", "style" >>

\* The statements of a cell, each named by the line it starts on.
CellStmts(c) ==
    CASE c = "future"  -> <<11, 12>>
      [] c = "numpy"   -> <<51, 52>>
      [] c = "load"    -> <<63, 64, 65, 67, 68>>
      [] c = "slic"    -> <<79, 80, 81>>
      [] c = "mean"    -> <<99, 106>>
      [] c = "rerun1"  -> <<126, 128, 129>>
      [] c = "rerun2"  -> <<147, 149, 150>>
      [] c = "rerun3"  -> <<168, 170, 171>>
      [] c = "rerun4"  -> <<189, 191, 192>>
      [] c = "url2"    -> <<245>>
      [] c = "imports" -> <<265, 266, 267>>
      [] c = "coins"   -> <<278, 279, 281>>
      [] c = "flood1d" -> <<301, 302, 304, 305, 307, 308, 310, 311, 314,
                            319, 320, 321, 324, 330, 333, 334, 335>>
      [] c = "edt"     -> <<360, 364, 365, 367>>
      [] c = "peaks"   -> <<385, 388, 389, 392, 393, 394, 396, 397, 398>>
      [] c = "ws"      -> <<416, 418, 419>>
      [] c = "filter"  -> <<440, 442, 444, 445, 449>>
      [] c = "style"   -> <<487, 488>>

SlicLines == {79, 126, 147, 168, 189}
\* Fault: the last re-run cell shows label_image without recomputing it.
MeanLinesSkipLast == {128, 149, 170}
MeanLines == {128, 149, 170, 191}
ShowLines == {129, 150, 171, 192}

\* The names a statement looks up.
Reads(s) ==
    CASE s = 64  -> {"plt"}
      [] s = 68  -> {"io", "url"}
      [] s \in SlicLines -> {"seg", "image"}
      [] s = 80  -> {"skdemo", "image", "labels"}
      [] s = 81  -> {"labels"}
      [] s = 106 -> {"skdemo", "image", "mean_color", "labels", "np"}
      [] s \in MeanLines -> {"mean_color", "image", "labels", "np"}
      [] s \in ShowLines -> {"skdemo", "image", "label_image"}
      [] s = 278 -> {"data"}
      [] s = 279 -> {"filters", "coins"}
      [] s = 281 -> {"plt", "edges"}
      [] s = 304 -> {"np"}
      [] s = 305 -> {"np"}
      [] s = 307 -> {"ndi", "y"}
      [] s = 308 -> {"np", "seeds"}
      [] s = 310 -> {"seeds"}
      [] s = 311 -> {"seed_positions"}
      [] s = 314 -> {"watershed", "y", "seeds"}
      [] s = 319 -> {"plt"}
      [] s = 320 -> {"plt", "y"}
      [] s = 321 -> {"plt", "seed_positions", "np"}
      [] s = 324 -> {"np", "result", "plt", "x"}
      [] s = 330 -> {"plt", "np", "result"}
      [] s \in {333, 334, 335} -> {"plt"}
      [] s = 364 -> {"edges", "threshold"}
      [] s = 365 -> {"ndi", "non_edges"}
      [] s = 367 -> {"plt", "distance_from_edge"}
      [] s = 388 -> {"feature", "distance_from_edge"}
      [] s = 389 -> {"peaks"}
      [] s = 392 -> {"np", "coins"}
      [] s = 393 -> {"peaks_image", "np", "peaks"}
      [] s = 394 -> {"ndi", "peaks_image"}
      [] s = 396 -> {"plt", "edges"}
      [] s = 397 -> {"plt", "peaks"}
      [] s = 398 -> {"plt"}
      [] s = 416 -> {"watershed", "edges", "seeds"}
      [] s = 419 -> {"plt", "color", "ws", "coins"}
      [] s = 442 -> {"regionprops", "ws"}
      [] s = 444 -> {"ws"}
      [] s = 445 -> {"regions", "ws_updated"}
      [] s = 449 -> {"plt", "color", "ws_updated", "coins"}
      [] OTHER   -> {}

\* The names a statement binds, in the namespace g it runs in.
Writes(s, g) ==
    CASE s = 11  -> {"division", "print_function"}
      [] s = 51  -> {"np"}
      [] s = 52  -> {"plt"}
      [] s = 63  -> {"skdemo"}
      [] s = 65  -> {"io", "seg", "color"}
      [] s = 67  -> {"url"}
      [] s = 68  -> {"image"}
      [] s \in SlicLines -> {"labels"}
      [] s = 99  -> {"mean_color"}
      [] s \in MeanLines -> {"label_image"}
      [] s = 245 -> {"url2"}
      [] s = 265 -> {"data"}
      [] s = 266 -> {"filters"}
      [] s = 267 -> {"plt", "cm"}
      [] s = 278 -> {"coins"}
      [] s = 279 -> {"edges"}
      [] s = 301 -> {"watershed"}
      [] s = 302 -> {"ndi"}
      [] s = 304 -> {"x"}
      [] s = 305 -> {"y"}
      [] s = 307 -> {"seeds"}
      [] s = 308 -> {"seed_positions"}
      [] s = 314 -> {"result"}
      [] s = 324 -> {"n", "label", "mask"}
      [] s = 360 -> {"threshold"}
      [] s = 364 -> {"non_edges"}
      [] s = 365 -> {"distance_from_edge"}
      [] s = 385 -> {"feature"}
      [] s = 388 -> {"peaks"}
      [] s = 392 -> {"peaks_image"}
      [] s = 394 -> {"seeds", "num_seeds"}
      [] s = 416 -> {"ws"}
      [] s = 418 -> {"color"}
      [] s = 440 -> {"regionprops"}
      [] s = 442 -> {"regions"}
      [] s = 444 -> {"ws_updated"}
      [] s = 445 -> IF g.regions = <<>> THEN {} ELSE {"region"}
      [] OTHER   -> {}

\* The calls into the libraries that read a file or compute from arguments:
\* any of them may raise.
Fallible ==
    SlicLines \cup {68, 278, 279, 307, 314, 365, 388, 394, 416, 442}

\* ------------------------------------------------------------------- state
VARIABLES
    pc,       \* index in Notebook of the next cell to run
    err,      \* "none", or the kind of the uncaught exception
    failed,   \* the statement that raised it (0: none)
    ran,      \* the statements executed so far, in order
    defined,  \* the names bound in the global namespace
    globals,  \* the values of the data-carrying globals
    aux,      \* history: who wrote seeds, the watershed calls, the last slic
    focus     \* which half of the notebook draws its library results widely

vars == <<pc, err, failed, ran, defined, globals, aux, focus>>

\* ------------------------------------------------- what the libraries return
ImgPix == Grid(1, ImgW)
CoinsPix == Grid(2, CoinsW)

\* io.imread(url): a colour image; the channels of a pixel of shade v are
\* v, v + 1, ... (mod MaxVal + 1), so that they differ.
Pixel(v) == [ch \in 1..Channels |-> (v + ch - 1) % (MaxVal + 1)]
Images == {[p \in ImgPix |-> Pixel(f[p])] : f \in [ImgPix -> 0..MaxVal]}

\* seg.slic(image, ...): one label per pixel of image.
LabelMaps(image) == [DOMAIN image -> 0..MaxLabel]

\* data.coins(): a fixed grey-level picture; only its shape is ever used.
CoinsImage == [p \in CoinsPix |-> 0]

\* filters.sobel(coins): an edge strength per pixel of coins, here around the
\* threshold; the coins picture has edges stronger than the threshold.
EdgeVals == {Threshold - 1, Threshold, Threshold + 1}
EdgeGrids == {e \in [CoinsPix -> EdgeVals] : \E p \in CoinsPix : e[p] >= Threshold}

\* feature.peak_local_max(distance_from_edge): coordinates in that array.
PeakSets(d) == {P \in SUBSET (DOMAIN d) : Cardinality(P) <= MaxPeaks}

\* region.eccentricity of the regions of ws.
EccVals == {EccThreshold - 1, EccThreshold, EccThreshold + 1}
EccMaps(ws) == [Range(ws) \ {0} -> EccVals]

\* What the library call of cell c may return.  A run draws widely in the
\* part of the notebook it focuses on and takes one fixed result elsewhere.
Inputs(c) ==
    CASE c = "load" ->
            IF focus = "spices" THEN Images
            ELSE {[p \in ImgPix |-> Pixel(p[2] % (MaxVal + 1))]}
      [] c \in {"slic", "rerun1", "rerun2", "rerun3", "rerun4"} ->
            IF focus = "spices" THEN LabelMaps(globals.image)
            ELSE {[p \in DOMAIN globals.image |-> 0]}
      [] c = "coins" ->
            IF focus = "edges" THEN EdgeGrids
            ELSE {[p \in CoinsPix |-> IF p[2] = 1 THEN Threshold + 1
                                      ELSE Threshold - 1]}
      [] c = "peaks" ->
            IF focus = "peaks" THEN PeakSets(globals.distance_from_edge)
            ELSE {{<<1, 0>>}}
      [] c = "filter" ->
            IF focus = "peaks" THEN EccMaps(globals.ws)
            ELSE {[l \in Range(globals.ws) \ {0} |-> EccThreshold + 1]}
      [] OTHER -> {0}

\* -------------------------------------------------------------- statements
\* Fault: the labelled peaks bound to another name, seeds left as it was.
LabelPeaksElsewhere(g) ==
    [g EXCEPT !.num_seeds = NdiLabel(g.peaks_image)[2]]

\* seeds, num_seeds = ndi.label(peaks_image)
LabelPeaks(g) ==
    [g EXCEPT !.seeds = NdiLabel(g.peaks_image)[1],
              !.num_seeds = NdiLabel(g.peaks_image)[2]]

\* The effect of statement s on the data-carrying globals; in is what the
\* library call of the cell returns.
Exec(s, g, in) ==
    CASE s = 68  -> [g EXCEPT !.image = in]
      [] s \in SlicLines -> [g EXCEPT !.labels = in]
      [] s \in MeanLines ->
            [g EXCEPT !.label_image = mean_color(g.image, g.labels)]
      [] s = 278 -> [g EXCEPT !.coins = CoinsImage]
      [] s = 279 -> [g EXCEPT !.edges = in]
      [] s = 305 -> [g EXCEPT !.y = Y1D]
      [] s = 307 -> [g EXCEPT !.seeds = NdiLabel(SeedMask(g.y))[1]]
      [] s = 314 -> [g EXCEPT !.result = Watershed(g.y, g.seeds)]
      [] s = 360 -> [g EXCEPT !.threshold = Threshold]
      [] s = 364 -> [g EXCEPT !.non_edges = NonEdges(g.edges, g.threshold)]
      [] s = 365 -> [g EXCEPT !.distance_from_edge =
                                   DistanceTransformEdt(g.non_edges)]
      [] s = 388 -> [g EXCEPT !.peaks = in]
      [] s = 392 -> [g EXCEPT !.peaks_image = PeaksZeros(g.coins)]
      [] s = 393 -> [g EXCEPT !.peaks_image = MarkPeaks(g.peaks_image, g.peaks)]
      [] s = 394 -> LabelPeaks(g)
      [] s = 416 -> [g EXCEPT !.ws = Watershed(g.edges, g.seeds)]
      [] s = 442 -> [g EXCEPT !.regions = RegionProps(g.ws, in)]
      [] s = 444 -> [g EXCEPT !.ws_updated = g.ws]
      [] s = 445 -> [g EXCEPT !.ws_updated = FilterLoop(g.ws_updated, g.regions)]
      [] OTHER   -> g

\* The history kept beside the namespace (g is the namespace before s).
Note(s, a, g, in) ==
    CASE s = 307 -> [a EXCEPT !.seedsFrom = "y"]
      [] s = 394 -> [a EXCEPT !.seedsFrom = "peaks"]
      [] s = 314 -> [a EXCEPT !.floods = Append(@,
                        [line |-> s, seedsFrom |-> a.seedsFrom,
                         markers |-> g.seeds,
                         sameShape |-> DOMAIN g.seeds = DOMAIN g.y])]
      [] s = 416 -> [a EXCEPT !.floods = Append(@,
                        [line |-> s, seedsFrom |-> a.seedsFrom,
                         markers |-> g.seeds,
                         sameShape |-> DOMAIN g.seeds = DOMAIN g.edges])]
      [] s \in SlicLines -> [a EXCEPT !.slicOut = in, !.slicLine = s]
      [] OTHER -> a

\* watershed raises when markers and image differ in shape.
Raises(s, g) ==
    \/ s = 314 /\ DOMAIN g.seeds # DOMAIN g.y
    \/ s = 416 /\ DOMAIN g.seeds # DOMAIN g.edges

\* Python runs the statements of a cell in order; an exception (a name not
\* bound, or a library call that raises: failAt, or one that must) is caught
\* nowhere and ends the cell there, its own assignment not made.
RECURSIVE Run(_, _, _, _)
Run(stmts, st, in, failAt) ==
    IF stmts = <<>> THEN st
    ELSE LET s == Head(stmts)
         IN  IF ~(Reads(s) \subseteq st.defined)
             THEN [st EXCEPT !.err = "NameError", !.failed = s]
             ELSE IF s = failAt \/ Raises(s, st.g)
             THEN [st EXCEPT !.err = "LibraryError", !.failed = s]
             ELSE Run(Tail(stmts),
                      [st EXCEPT !.g = Exec(s, st.g, in),
                                 !.a = Note(s, st.a, st.g, in),
                                 !.defined = @ \cup Writes(s, st.g),
                                 !.ran = Append(@, s)],
                      in, failAt)

\* Fault: a kernel that goes on after an error.
HaltedNever == FALSE

\* The kernel stops a "Run All" at the first cell that raised.
Halted == err # "none"

At(c) == ~Halted /\ pc \in 1..Len(Notebook) /\ Notebook[pc] = c

RunCell(c) ==
    /\ \E in \in Inputs(c),
          failAt \in {0} \cup (Fallible \cap Range(CellStmts(c))) :
         LET st == Run(CellStmts(c),
                       [g |-> globals, a |-> aux, defined |-> defined,
                        ran |-> ran, err |-> "none", failed |-> 0],
                       in, failAt)
         IN  /\ globals' = st.g
             /\ aux' = st.a
             /\ defined' = st.defined
             /\ ran' = st.ran
             /\ err' = st.err
             /\ failed' = st.failed
             /\ pc' = IF st.err = "none" THEN pc + 1 ELSE pc
    /\ UNCHANGED focus

CellFuture ==
    /\ At("future")
    /\ RunCell("future")

CellNumpy ==
    /\ At("numpy")
    /\ RunCell("numpy")

CellLoad ==
    /\ At("load")
    /\ RunCell("load")

CellSlic ==
    /\ At("slic")
    /\ RunCell("slic")

CellMean ==
    /\ At("mean")
    /\ RunCell("mean")

CellRerun1 ==
    /\ At("rerun1")
    /\ RunCell("rerun1")

CellRerun2 ==
    /\ At("rerun2")
    /\ RunCell("rerun2")

CellRerun3 ==
    /\ At("rerun3")
    /\ RunCell("rerun3")

CellRerun4 ==
    /\ At("rerun4")
    /\ RunCell("rerun4")

CellUrl2 ==
    /\ At("url2")
    /\ RunCell("url2")

CellImports ==
    /\ At("imports")
    /\ RunCell("imports")

CellCoins ==
    /\ At("coins")
    /\ RunCell("coins")

CellFlood1d ==
    /\ At("flood1d")
    /\ RunCell("flood1d")

CellEdt ==
    /\ At("edt")
    /\ RunCell("edt")

CellPeaks ==
    /\ At("peaks")
    /\ RunCell("peaks")

CellWs ==
    /\ At("ws")
    /\ RunCell("ws")

CellFilter ==
    /\ At("filter")
    /\ RunCell("filter")

CellStyle ==
    /\ At("style")
    /\ RunCell("style")

\* Before the first cell nothing is bound.
Unbound ==
    [image |-> <<>>, labels |-> <<>>, label_image |-> <<>>, coins |-> <<>>,
     edges |-> <<>>, y |-> <<>>, seeds |-> <<>>, result |-> <<>>,
     threshold |-> 0, non_edges |-> <<>>, distance_from_edge |-> <<>>,
     peaks |-> {}, peaks_image |-> <<>>, num_seeds |-> 0, ws |-> <<>>,
     regions |-> <<>>, ws_updated |-> <<>>]

Init ==
    /\ pc = 1
    /\ err = "none"
    /\ failed = 0
    /\ ran = <<>>
    /\ defined = {}
    /\ globals = Unbound
    /\ aux = [seedsFrom |-> "none", floods |-> <<>>, slicOut |-> <<>>,
              slicLine |-> 0]
    /\ focus \in {"spices", "edges", "peaks"}

Next ==
    \/ CellFuture
    \/ CellNumpy
    \/ CellLoad
    \/ CellSlic
    \/ CellMean
    \/ CellRerun1
    \/ CellRerun2
    \/ CellRerun3
    \/ CellRerun4
    \/ CellUrl2
    \/ CellImports
    \/ CellCoins
    \/ CellFlood1d
    \/ CellEdt
    \/ CellPeaks
    \/ CellWs
    \/ CellFilter
    \/ CellStyle

Spec == Init /\ [][Next]_vars

\* ------------------------------------------------------------------ claims
Bound(n) == n \in defined

Done == pc = Len(Notebook) + 1

\* The pixels of one segment of a label map.
Segment(labels, l) == {q \in DOMAIN labels : labels[q] = l}

\* The watershed calls made so far from line s.
FloodsAt(s) == {i \in 1..Len(aux.floods) : aux.floods[i].line = s}

\* C1: mean_color gives every pixel the exact per-channel average of the
\* image over the pixel's segment (stated on label_image, which the re-run
\* cells compute as mean_color(image, labels)).
C1_MeanColorIsAverage ==
    Bound("label_image") =>
        \A p \in DOMAIN globals.labels : \A ch \in 1..Channels :
            LET seg == Segment(globals.labels, globals.labels[p])
            IN  globals.label_image[p][ch] * Cardinality(seg)
                    = SumChannel(globals.image, seg, ch)

\* C2: in the one-dimensional example every position of result carries the
\* label of a seed (none is left 0), every seed keeps its own label, and the
\* positions of one label are one contiguous run (which holds that seed).
C2_EachPointFloodedByOneSeed ==
    Bound("result") =>
        \A i \in FloodsAt(314) :
            LET m == aux.floods[i].markers
                r == globals.result
            IN  /\ DOMAIN r = DOMAIN globals.y
                /\ \A p \in DOMAIN r :
                      r[p] # 0 /\ \E q \in DOMAIN m : m[q] # 0 /\ m[q] = r[p]
                /\ \A p \in DOMAIN m : m[p] # 0 => r[p] = m[p]
                /\ \A p, q \in DOMAIN r :
                      r[p] = r[q] =>
                          \A t \in DOMAIN r :
                              (p[1] < t[1] /\ t[1] < q[1]) => r[t] = r[p]

C2_Witness ==
    /\ Bound("result")
    /\ FloodsAt(314) # {}
    /\ Cardinality(Range(globals.result)) = 3
    /\ \E p \in DOMAIN globals.result :
          globals.y[p] # 0 /\ globals.result[p] = 2

\* C3: after the loop over regionprops(ws), a pixel of ws_updated is 0 when
\* the region of its ws label has eccentricity > 0.6 and is its ws label
\* otherwise.
C3_FilterRemovesExactlyNonRound ==
    Bound("ws_updated") =>
        /\ DOMAIN globals.ws_updated = DOMAIN globals.ws
        /\ \A p \in DOMAIN globals.ws :
              globals.ws_updated[p] =
                  IF \E i \in 1..Len(globals.regions) :
                        /\ globals.regions[i].label = globals.ws[p]
                        /\ globals.regions[i].eccentricity > EccThreshold
                  THEN 0 ELSE globals.ws[p]

C3_Witness ==
    /\ Bound("ws_updated")
    /\ \E p, q \in DOMAIN globals.ws :
          /\ globals.ws[p] # 0 /\ globals.ws_updated[p] = 0
          /\ globals.ws_updated[q] # 0
    /\ \E i \in 1..Len(globals.regions) :
          globals.regions[i].eccentricity = EccThreshold

\* C4: every label map and every image derived from one has the dimensions
\* of its source, one integer per pixel: labels and label_image those of
\* image; seeds written from peaks_image, ws and ws_updated those of coins
\* and edges.
C4_SameDimensions ==
    /\ Bound("labels") =>
          /\ DOMAIN globals.labels = DOMAIN globals.image
          /\ \A p \in DOMAIN globals.labels : globals.labels[p] \in Nat
    /\ Bound("label_image") =>
          DOMAIN globals.label_image = DOMAIN globals.image
    /\ Bound("edges") => DOMAIN globals.edges = DOMAIN globals.coins
    /\ aux.seedsFrom = "peaks" =>
          /\ DOMAIN globals.seeds = DOMAIN globals.coins
          /\ \A p \in DOMAIN globals.seeds : globals.seeds[p] \in Nat
    /\ Bound("ws") =>
          /\ DOMAIN globals.ws = DOMAIN globals.edges
          /\ \A p \in DOMAIN globals.ws : globals.ws[p] \in Nat
    /\ Bound("ws_updated") =>
          /\ DOMAIN globals.ws_updated = DOMAIN globals.coins
          /\ \A p \in DOMAIN globals.ws_updated : globals.ws_updated[p] \in Nat

C4_Witness ==
    /\ Done
    /\ Bound("label_image")
    /\ Bound("ws_updated")
    /\ aux.seedsFrom = "peaks"
    /\ DOMAIN globals.image # DOMAIN globals.coins

Pos(s) ==
    IF \E i \in 1..Len(ran) : ran[i] = s
    THEN CHOOSE i \in 1..Len(ran) : ran[i] = s
    ELSE 0

PipelineOrder == <<68, 79, 128, 279, 365, 388, 394, 416, 445>>

\* C5: in a top-to-bottom run no statement looks up a name that no earlier
\* statement bound, and the pipeline steps run in the stated order: image
\* load, SLIC, label visualisation, Sobel, distance transform, peak finding,
\* seed labelling, watershed, eccentricity filter.
C5_StepsInOrder ==
    /\ err # "NameError"
    /\ \A k \in 2..Len(PipelineOrder) :
          Pos(PipelineOrder[k]) # 0 =>
              /\ Pos(PipelineOrder[k - 1]) # 0
              /\ Pos(PipelineOrder[k - 1]) < Pos(PipelineOrder[k])

C5_Witness ==
    /\ Done
    /\ \A k \in 1..Len(PipelineOrder) : Pos(PipelineOrder[k]) # 0

Data == DOMAIN Unbound

\* What every step of a run satisfies.
C6_FailingStep ==
    /\ err = "none"
    /\ err' # "none" =>
          LET stmts == CellStmts(Notebook[pc])
              k == CHOOSE i \in 1..Len(stmts) : stmts[i] = failed'
              before == {stmts[i] : i \in 1..(k - 1)}
              rebound == UNION {Writes(s, globals') : s \in before}
          IN  /\ pc' = pc
              /\ failed' \in Range(stmts)
              /\ ran' = ran \o SubSeq(stmts, 1, k - 1)
              /\ \A n \in Writes(failed', globals') \ rebound :
                    /\ (n \in defined') = (n \in defined)
                    /\ n \in Data => globals'[n] = globals[n]
              /\ \A n \in defined :
                    /\ n \in defined'
                    /\ (n \in Data /\ n \notin rebound) =>
                           globals'[n] = globals[n]

\* C6: a library call that raises ends the run: no step is taken from a
\* state with an error; the step that raises runs the statements of its cell
\* before the failing one and nothing after, does not make the failing
\* statement's assignment, and leaves every name bound before it bound, with
\* its value unless one of those earlier statements of the cell rebound it.
C6_ErrorInterruptsRun == [][C6_FailingStep]_vars

C6_Witness ==
    /\ err = "LibraryError"
    /\ failed = 147
    /\ Bound("label_image")
    /\ Cardinality(Range(globals.labels)) = 2

CellIndex(c) == CHOOSE i \in 1..Len(Notebook) : Notebook[i] = c

RerunSlicLine(c) ==
    CASE c = "rerun1" -> 126 [] c = "rerun2" -> 147
      [] c = "rerun3" -> 168 [] c = "rerun4" -> 189

\* C7: after each re-run cell labels is what that cell's seg.slic call
\* returned, and whenever label_image is bound it is mean_color(image,
\* labels) of the current labels.
C7_LabelsFreshAndShown ==
    /\ Bound("labels") => globals.labels = aux.slicOut
    /\ \A c \in {"rerun1", "rerun2", "rerun3", "rerun4"} :
          pc = CellIndex(c) + 1 => aux.slicLine = RerunSlicLine(c)
    /\ Bound("label_image") =>
          globals.label_image = mean_color(globals.image, globals.labels)

C7_Witness ==
    /\ pc = CellIndex("rerun4") + 1
    /\ aux.slicLine = 189
    /\ Bound("label_image")
    /\ focus = "spices"
    /\ \E p \in DOMAIN globals.image : globals.label_image[p] # globals.image[p]

\* C8: watershed(y, seeds) reads the seeds written from y == 0 and
\* watershed(edges, seeds) those written from the peaks; at each call seeds
\* and the flooded image have the same dimensions.
C8_EachFloodReadsItsOwnSeeds ==
    /\ \A i \in 1..Len(aux.floods) :
          /\ aux.floods[i].sameShape
          /\ aux.floods[i].line = 314 => aux.floods[i].seedsFrom = "y"
          /\ aux.floods[i].line = 416 => aux.floods[i].seedsFrom = "peaks"
    /\ failed = 314 =>
          aux.seedsFrom = "y" /\ DOMAIN globals.seeds = DOMAIN globals.y
    /\ failed = 416 =>
          aux.seedsFrom = "peaks" /\ DOMAIN globals.seeds = DOMAIN globals.edges

C8_Witness ==
    /\ FloodsAt(314) # {}
    /\ FloodsAt(416) # {}
    /\ DOMAIN globals.result # DOMAIN globals.ws

\* A labelling puts two pixels of S in one class exactly when they are
\* connected: neighbours share a label, and no class splits into two parts
\* with no neighbours across.
LabelsComponents(seeds, S) ==
    /\ \A p, q \in S : Adjacent(p, q) => seeds[p] = seeds[q]
    /\ \A l \in {seeds[p] : p \in S} :
          LET class == {p \in S : seeds[p] = l}
          IN  \A A \in SUBSET class :
                  (A # {} /\ A # class) =>
                      \E a \in A, b \in class \ A : Adjacent(a, b)

\* C9: seeds is nonzero exactly at the True pixels of the mask (y == 0, or
\* the coordinates peak_local_max returned), two mask pixels share a label
\* exactly when they are in one connected component, the labels are
\* 1..num_seeds, and num_seeds is at most the number of peaks.
C9_SeedsLabelTheMask ==
    /\ aux.seedsFrom = "y" =>
          LET S == {p \in DOMAIN globals.y : globals.y[p] = 0}
          IN  /\ \A p \in DOMAIN globals.seeds : (globals.seeds[p] # 0) = (p \in S)
              /\ LabelsComponents(globals.seeds, S)
              /\ \E n \in 0..Cardinality(S) :
                    Range(globals.seeds) \ {0} = 1..n
    /\ aux.seedsFrom = "peaks" =>
          LET S == globals.peaks
          IN  /\ \A p \in DOMAIN globals.seeds : (globals.seeds[p] # 0) = (p \in S)
              /\ \A p \in DOMAIN globals.peaks_image :
                    globals.peaks_image[p] = (p \in S)
              /\ LabelsComponents(globals.seeds, S)
              /\ Range(globals.seeds) \ {0} = 1..globals.num_seeds
              /\ globals.num_seeds <= Cardinality(S)

C9_Witness ==
    /\ aux.seedsFrom = "peaks"
    /\ Cardinality(globals.peaks) = 2
    /\ globals.num_seeds = 1

\* C10: distance_from_edge is 0 exactly where edges >= threshold, positive
\* where edges < threshold, and there the Euclidean distance (its square
\* here) to the nearest pixel with edges >= threshold.
C10_DistanceToNearestEdge ==
    Bound("distance_from_edge") =>
        LET d == globals.distance_from_edge
            E == {q \in DOMAIN globals.edges : globals.edges[q] >= Threshold}
        IN  /\ DOMAIN d = DOMAIN globals.edges
            /\ \A p \in DOMAIN d :
                  /\ (d[p] = 0) = (p \in E)
                  /\ p \notin E =>
                        /\ d[p] > 0
                        /\ \E q \in E : SqDist(p, q) = d[p]
                        /\ \A q \in E : SqDist(p, q) >= d[p]

C10_Witness ==
    /\ Bound("distance_from_edge")
    /\ \E p \in DOMAIN globals.distance_from_edge :
          globals.distance_from_edge[p] > 1
    /\ \E p \in DOMAIN globals.edges : globals.edges[p] = Threshold

====
